---- MODULE Spec2Model ----
(***************************************************************************)
(* A model of tinytga: the TGA header parser (src/src/header.rs), the raw *)
(* image (src/src/raw_tga.rs), the RLE / uncompressed colour decoder and  *)
(* the raw pixel iterator (src/src/raw_iter.rs) and the typed image with  *)
(* its draw strategies (src/src/lib.rs).                                   *)
(*                                                                         *)
(* Bytes are naturals in 0..255, byte slices are sequences, Option<T> is  *)
(* a sequence of length 0 (None) or 1 (Some).                              *)
(***************************************************************************)
EXTENDS Integers, Sequences, FiniteSets, TLC

VARIABLES
    \* ---- a TGA file and what the constructors and draw made of it ----
    file,               \* the byte buffer handed to the constructors
    type_byte,          \* the image-type byte handed to parse_image_type
    image_type_result,  \* Some(what parse_image_type returned), None before
    raw_result,         \* Some(what RawTga::from_slice returned), None before
    tga_result,         \* Some(what Tga::from_slice returned), None before
    draw_result,        \* Some(how draw ended and what it filled), None before
    tga_pixels,         \* Some(the iterator Tga::pixels returned), None before
    tga_out,            \* the pixels that iterator has yielded so far
    tga_ended,          \* that iterator has returned None
    \* ---- one RawColors<R, F> decoder driven by a consumer ----
    raw_data_type,  \* R: the storage width of a colour in bytes (1, 2, 3, 4)
    format,         \* F: "Uncompressed" or "Rle"
    image_data,     \* the slice the decoder was created on
    colors,         \* the RawColors struct
    limit,          \* how many items the consumer pulls (Iterator::take)
    calls,          \* how many times next() has been called
    item,           \* what the last call of next() returned
    \* ---- one RawPixels iterator over a RawTga ----
    raw_tga,        \* the RawTga the iterator borrows
    pixels,         \* the RawPixels struct
    out,            \* the RawPixel values yielded so far
    ended,          \* TRUE once next() has returned None
    \* ---- a second RawPixels iterator, over the uncompressed twin ----
    ref_tga,
    ref_pixels,
    ref_out,
    ref_ended

vars == <<file, type_byte, image_type_result, raw_result, tga_result, draw_result,
          tga_pixels, tga_out, tga_ended,
          raw_data_type, format, image_data, colors, limit, calls, item,
          raw_tga, pixels, out, ended, ref_tga, ref_pixels, ref_out, ref_ended>>

fileVars == <<file, type_byte, image_type_result, raw_result, tga_result, draw_result,
              tga_pixels, tga_out, tga_ended>>
colorsVars == <<raw_data_type, format, image_data, colors, limit, calls, item>>
pixelsVars == <<raw_tga, pixels, out, ended>>
refVars == <<ref_tga, ref_pixels, ref_out, ref_ended>>

(***************************************************************************)
(* Bounds of the model.                                                    *)
(***************************************************************************)
\* longest arbitrary byte string handed to a lone decoder
MaxData == 5
\* items a consumer pulls from a decoder over an arbitrary byte string
MaxCalls == 7
\* largest header width and height of the images the pixel iterator walks
MaxWidth == 2
MaxHeight == 2
\* longest pixel data of those images
MaxPixelData == 4
\* most pixels (width * height) of an image packed into RLE packets
MaxPixels == 4
\* width and height of the images in the files handed to the constructors
FileSide == 2

(***************************************************************************)
(* Option and small helpers.                                               *)
(***************************************************************************)
None == <<>>
Some(v) == <<v>>

Min(a, b) == IF a < b THEN a ELSE b

Drop(s, n) == SubSeq(s, n + 1, Len(s))

RECURSIVE SeqsUpTo(_, _)
SeqsUpTo(S, n) ==
    IF n = 0 THEN {<<>>}
    ELSE LET shorter == SeqsUpTo(S, n - 1)
         IN  shorter \cup {Append(s, b) : s \in {t \in shorter : Len(t) = n - 1}, b \in S}

\* A u32 is kept as its four bytes, least significant first, so that all 32
\* bits keep their place; this is the value 0.
Zero32 == <<0, 0, 0, 0>>

\* u16::from_le_bytes / u32::from_le_bytes over the N bytes of a slice, widened
\* to u32: the missing high bytes are 0 (for RawU24 "bytes2 = [0u8; 4]")
from_le_bytes(slice) ==
    [i \in 1..4 |-> IF i <= Len(slice) THEN slice[i] ELSE 0]

RECURSIVE BitAnd(_, _)
BitAnd(a, b) ==
    IF a = 0 \/ b = 0 THEN 0
    ELSE (a % 2) * (b % 2) + 2 * BitAnd(a \div 2, b \div 2)

(***************************************************************************)
(* header.rs: Bpp, ImageOrigin.                                            *)
(***************************************************************************)
BppValues == {"Bits8", "Bits16", "Bits24", "Bits32"}

\* Bpp::bits
bits(b) ==
    CASE b = "Bits8" -> 8
      [] b = "Bits16" -> 16
      [] b = "Bits24" -> 24
      [] b = "Bits32" -> 32

\* Bpp::bytes
bytes(b) ==
    CASE b = "Bits8" -> 1
      [] b = "Bits16" -> 2
      [] b = "Bits24" -> 3
      [] b = "Bits32" -> 4

ImageOrigins == {"BottomLeft", "BottomRight", "TopLeft", "TopRight"}

\* is_bottom answering for the left corner only
is_bottom_left_only(origin) == origin = "BottomLeft"

\* ImageOrigin::is_bottom
is_bottom(origin) == origin \in {"BottomLeft", "BottomRight"}

Compressions == {"Uncompressed", "Rle"}

(***************************************************************************)
(* raw_iter.rs: RawColors<R, F>.  R is given by its width N in bytes.      *)
(***************************************************************************)
\* RawColors::new
RawColorsNew(data) ==
    [remaining_data |-> data, rle_pixel |-> Zero32, rle_repeat |-> 0, rle_take_raw |-> 0]

\* R::from_u32: keeps the low 8 * N bits
from_u32(v, N) == [i \in 1..4 |-> IF i <= N THEN v[i] ELSE 0]

\* next_color reading the bytes most significant first
next_color_big_endian(c, N) ==
    IF Len(c.remaining_data) >= N
    THEN [colors |-> [c EXCEPT !.remaining_data = Drop(c.remaining_data, N)],
          item |-> Some(from_le_bytes([i \in 1..N |-> c.remaining_data[N + 1 - i]]))]
    ELSE [colors |-> c, item |-> None]

\* next_color padding with a zero colour when fewer than N bytes remain
next_color_zero_fill(c, N) ==
    IF Len(c.remaining_data) >= N
    THEN [colors |-> [c EXCEPT !.remaining_data = Drop(c.remaining_data, N)],
          item |-> Some(from_le_bytes(SubSeq(c.remaining_data, 1, N)))]
    ELSE [colors |-> c, item |-> Some(Zero32)]

\* next_color skipping the leftover bytes when fewer than N remain
next_color_draining(c, N) ==
    IF Len(c.remaining_data) >= N
    THEN [colors |-> [c EXCEPT !.remaining_data = Drop(c.remaining_data, N)],
          item |-> Some(from_le_bytes(SubSeq(c.remaining_data, 1, N)))]
    ELSE [colors |-> [c EXCEPT !.remaining_data = <<>>], item |-> None]

\* NextColor::next_color for RawU8, RawU16, RawU24 and RawU32: the next N
\* bytes, little endian, when N bytes remain; None, the cursor untouched,
\* otherwise.
next_color(c, N) ==
    IF Len(c.remaining_data) >= N
    THEN [colors |-> [c EXCEPT !.remaining_data = Drop(c.remaining_data, N)],
          item |-> Some(from_le_bytes(SubSeq(c.remaining_data, 1, N)))]
    ELSE [colors |-> c, item |-> None]

\* the uncompressed decoder ending when the data runs out
UncompressedNextEnding(c, N) == next_color(c, N)

\* Iterator::next of RawColors<R, Uncompressed>
UncompressedNext(c, N) ==
    LET r == next_color(c, N)
    IN  IF r.item = None THEN [colors |-> r.colors, item |-> Some(from_u32(Zero32, N))]
        ELSE r

\* the pixel count without the "+ 1"
PixelCountStored(type_and_count) == type_and_count % 128

\* the pixel count taken from all eight bits of the control byte
PixelCountUnmasked(type_and_count) == (type_and_count + 1) % 256

\* "(*type_and_count & 0x7F) + 1", a u8
PixelCount(type_and_count) == ((type_and_count % 128) + 1) % 256

\* "*type_and_count & 0x80 != 0"
IsRepeatPacket(type_and_count) == BitAnd(type_and_count, 128) # 0

\* the RLE decoder padding with a zero colour when the data ends between two
\* packets, as the uncompressed decoder does
RECURSIVE RleNextZeroAtEnd(_, _)
RleNextZeroAtEnd(c, N) ==
    IF c.rle_repeat > 0
    THEN [colors |-> [c EXCEPT !.rle_repeat = @ - 1],
          item |-> Some(from_u32(c.rle_pixel, N))]
    ELSE IF c.rle_take_raw > 0
    THEN next_color([c EXCEPT !.rle_take_raw = @ - 1], N)
    ELSE IF c.remaining_data = <<>>
    THEN [colors |-> c, item |-> Some(from_u32(Zero32, N))]
    ELSE LET type_and_count == Head(c.remaining_data)
             c1 == [c EXCEPT !.remaining_data = Tail(c.remaining_data)]
             pixel_count == PixelCount(type_and_count)
         IN  IF IsRepeatPacket(type_and_count)
             THEN LET r == next_color(c1, N)
                  IN  IF r.item = None
                      THEN [colors |-> r.colors, item |-> None]
                      ELSE RleNextZeroAtEnd([r.colors EXCEPT !.rle_repeat = pixel_count,
                                                             !.rle_pixel = r.item[1]], N)
             ELSE RleNextZeroAtEnd([c1 EXCEPT !.rle_take_raw = pixel_count], N)

\* the RLE decoder storing the count of a repeat packet before it reads the
\* packet's colour
RECURSIVE RleNextCountBeforePixel(_, _)
RleNextCountBeforePixel(c, N) ==
    IF c.rle_repeat > 0
    THEN [colors |-> [c EXCEPT !.rle_repeat = @ - 1],
          item |-> Some(from_u32(c.rle_pixel, N))]
    ELSE IF c.rle_take_raw > 0
    THEN next_color([c EXCEPT !.rle_take_raw = @ - 1], N)
    ELSE IF c.remaining_data = <<>>
    THEN [colors |-> c, item |-> None]
    ELSE LET type_and_count == Head(c.remaining_data)
             c1 == [c EXCEPT !.remaining_data = Tail(c.remaining_data)]
             pixel_count == PixelCount(type_and_count)
         IN  IF IsRepeatPacket(type_and_count)
             THEN LET r == next_color([c1 EXCEPT !.rle_repeat = pixel_count], N)
                  IN  IF r.item = None
                      THEN [colors |-> r.colors, item |-> None]
                      ELSE RleNextCountBeforePixel([r.colors EXCEPT !.rle_pixel = r.item[1]], N)
             ELSE RleNextCountBeforePixel([c1 EXCEPT !.rle_take_raw = pixel_count], N)

\* Iterator::next of RawColors<R, Rle>: the loop runs until a branch breaks
\* or a `?` returns None.
RECURSIVE RleNext(_, _)
RleNext(c, N) ==
    IF c.rle_repeat > 0
    THEN [colors |-> [c EXCEPT !.rle_repeat = @ - 1],
          item |-> Some(from_u32(c.rle_pixel, N))]
    ELSE IF c.rle_take_raw > 0
    THEN next_color([c EXCEPT !.rle_take_raw = @ - 1], N)
    ELSE IF c.remaining_data = <<>>
    THEN [colors |-> c, item |-> None]
    ELSE LET type_and_count == Head(c.remaining_data)
             c1 == [c EXCEPT !.remaining_data = Tail(c.remaining_data)]
             pixel_count == PixelCount(type_and_count)
         IN  IF IsRepeatPacket(type_and_count)
             THEN LET r == next_color(c1, N)
                  IN  IF r.item = None
                      THEN [colors |-> r.colors, item |-> None]
                      ELSE RleNext([r.colors EXCEPT !.rle_repeat = pixel_count,
                                                    !.rle_pixel = r.item[1]], N)
             ELSE RleNext([c1 EXCEPT !.rle_take_raw = pixel_count], N)

\* how many times one call of Iterator::next of RawColors<R, Rle> takes the
\* third branch of its loop, the one that reads a control byte
RECURSIVE RleControlBytesRead(_, _)
RleControlBytesRead(c, N) ==
    IF c.rle_repeat > 0 THEN 0
    ELSE IF c.rle_take_raw > 0 THEN 0
    ELSE IF c.remaining_data = <<>> THEN 0
    ELSE LET type_and_count == Head(c.remaining_data)
             c1 == [c EXCEPT !.remaining_data = Tail(c.remaining_data)]
             pixel_count == PixelCount(type_and_count)
         IN  IF IsRepeatPacket(type_and_count)
             THEN LET r == next_color(c1, N)
                  IN  IF r.item = None THEN 1
                      ELSE 1 + RleControlBytesRead(
                                    [r.colors EXCEPT !.rle_repeat = pixel_count,
                                                     !.rle_pixel = r.item[1]], N)
             ELSE 1 + RleControlBytesRead([c1 EXCEPT !.rle_take_raw = pixel_count], N)

\* next() of the decoder of the given format
ColorsNext(c, N, F) ==
    IF F = "Rle" THEN RleNext(c, N) ELSE UncompressedNext(c, N)

(***************************************************************************)
(* raw_iter.rs: RawPixels over a RawTga.  A RawTga is the record           *)
(* [size, image_origin, bpp, compression, data_type, color_map,            *)
(*  pixel_data] that RawTga::from_slice builds (raw_tga.rs:64).            *)
(***************************************************************************)
\* u32::saturating_sub
saturating_sub(a, b) == IF a >= b THEN a - b ELSE 0

\* RawPixels::new with every image starting at row 0
RawPixelsNewStartTop(t) ==
    [colors |-> [bpp |-> t.bpp, compression |-> t.compression,
                 inner |-> RawColorsNew(t.pixel_data)],
     position |-> [x |-> 0, y |-> 0]]

\* RawPixels::new: the DynamicRawColors variant is chosen by (image_data_bpp,
\* compression), the walk starts in the first stored row.
RawPixelsNew(t) ==
    LET start_y == IF is_bottom(t.image_origin)
                   THEN saturating_sub(t.size.height, 1)
                   ELSE 0
    IN  [colors |-> [bpp |-> t.bpp, compression |-> t.compression,
                     inner |-> RawColorsNew(t.pixel_data)],
         position |-> [x |-> 0, y |-> start_y]]

\* RawPixels::next_position
next_position(t, it) ==
    IF it.position.y < 0 \/ it.position.y >= t.size.height
    THEN [position |-> it.position, result |-> None]
    ELSE LET x1 == it.position.x + 1
         IN  [position |->
                IF x1 >= t.size.width
                THEN [x |-> 0,
                      y |-> IF is_bottom(t.image_origin)
                            THEN it.position.y - 1
                            ELSE it.position.y + 1]
                ELSE [x |-> x1, y |-> it.position.y],
              result |-> Some(it.position)]

\* Iterator::next of RawPixels: the position first, then the colour; either
\* `?` returns None with what was done before it kept.
RawPixelsNext(t, it) ==
    LET p == next_position(t, it)
    IN  IF p.result = None
        THEN [pixels |-> it, item |-> None]
        ELSE LET r == ColorsNext(it.colors.inner, bytes(it.colors.bpp),
                                 it.colors.compression)
                 it1 == [it EXCEPT !.position = p.position, !.colors.inner = r.colors]
             IN  IF r.item = None
                 THEN [pixels |-> it1, item |-> None]
                 ELSE [pixels |-> it1,
                       item |-> Some([position |-> p.result[1], color |-> r.item[1]])]

(***************************************************************************)
(* header.rs: TgaHeader::parse.  Result<T, E> is [ok |-> TRUE, value] or   *)
(* [ok |-> FALSE, error]; a nom error is given by its ErrorKind.           *)
(***************************************************************************)
Ok(v) == [ok |-> TRUE, value |-> v]
Err(e) == [ok |-> FALSE, error |-> e]

\* nom's le_u16 over the two bytes at index i
le_u16(input, i) == input[i] + 256 * input[i + 1]

\* Bpp::new with a default arm in place of None
Bpp_new_with_default(value) ==
    CASE value = 16 -> Some("Bits16")
      [] value = 24 -> Some("Bits24")
      [] value = 32 -> Some("Bits32")
      [] OTHER -> Some("Bits8")

\* Bpp::new
Bpp_new(value) ==
    CASE value = 8 -> Some("Bits8")
      [] value = 16 -> Some("Bits16")
      [] value = 24 -> Some("Bits24")
      [] value = 32 -> Some("Bits32")
      [] OTHER -> None

\* parse_image_type that lets the reserved type 8 through
parse_image_type_accepts_8(image_type) ==
    IF BitAnd(image_type, 244) # 0
    THEN Err([kind |-> "UnsupportedImageType", image_type |-> image_type])
    ELSE Ok([data_type |-> CASE image_type % 4 = 1 -> "ColorMapped"
                             [] image_type % 4 = 2 -> "TrueColor"
                             [] image_type % 4 = 3 -> "BlackAndWhite"
                             [] OTHER -> "NoData",
             compression |-> IF BitAnd(image_type, 8) # 0 THEN "Rle" ELSE "Uncompressed"])

\* parse_image_type; "!0b1011" is 0xF4 = 244 in a u8
parse_image_type(image_type) ==
    IF BitAnd(image_type, 244) # 0 \/ image_type = 8
    THEN Err([kind |-> "UnsupportedImageType", image_type |-> image_type])
    ELSE Ok([data_type |-> CASE BitAnd(image_type, 3) = 1 -> "ColorMapped"
                             [] BitAnd(image_type, 3) = 2 -> "TrueColor"
                             [] BitAnd(image_type, 3) = 3 -> "BlackAndWhite"
                             [] OTHER -> "NoData",
             compression |-> IF BitAnd(image_type, 8) # 0 THEN "Rle" ELSE "Uncompressed"])

\* the closure of has_color_map, applied to the byte le_u8 read
has_color_map(b) ==
    CASE b = 0 -> Ok(FALSE)
      [] b = 1 -> Ok(TRUE)
      [] OTHER -> Err([kind |-> "ColorMap"])

\* from_image_descriptor shifting the byte without masking bits 6 and 7
from_image_descriptor_unmasked(value) ==
    CASE value \div 16 = 0 -> "BottomLeft"
      [] value \div 16 = 1 -> "BottomRight"
      [] value \div 16 = 2 -> "TopLeft"
      [] OTHER -> "TopRight"

\* ImageOrigin::from_image_descriptor
from_image_descriptor(value) ==
    CASE BitAnd(value, 48) \div 16 = 0 -> "BottomLeft"
      [] BitAnd(value, 48) \div 16 = 1 -> "BottomRight"
      [] BitAnd(value, 48) \div 16 = 2 -> "TopLeft"
      [] OTHER -> "TopRight"

\* TgaHeader::parse: the twelve fields in order, the first that cannot be
\* read ends the parse (le_u8 / le_u16 on too few bytes: Eof; map_res on an
\* Err: MapRes, the ParseError inside is dropped; map_opt on None: MapOpt).
TgaHeaderParse(input) ==
    IF Len(input) < 2 THEN Err("Eof")
    ELSE IF ~has_color_map(input[2]).ok THEN Err("MapRes")
    ELSE IF Len(input) < 3 THEN Err("Eof")
    ELSE IF ~parse_image_type(input[3]).ok THEN Err("MapRes")
    ELSE IF Len(input) < 17 THEN Err("Eof")
    ELSE IF Bpp_new(input[17]) = None THEN Err("MapOpt")
    ELSE IF Len(input) < 18 THEN Err("Eof")
    ELSE Ok([rest |-> Drop(input, 18),
             header |->
                [id_len |-> input[1],
                 has_color_map |-> has_color_map(input[2]).value,
                 data_type |-> parse_image_type(input[3]).value.data_type,
                 compression |-> parse_image_type(input[3]).value.compression,
                 color_map_start |-> le_u16(input, 4),
                 color_map_len |-> le_u16(input, 6),
                 color_map_depth |-> Bpp_new(input[8]),
                 x_origin |-> le_u16(input, 9),
                 y_origin |-> le_u16(input, 11),
                 width |-> le_u16(input, 13),
                 height |-> le_u16(input, 15),
                 pixel_depth |-> Bpp_new(input[17])[1],
                 image_origin |-> from_image_descriptor(input[18]),
                 alpha_channel_depth |-> BitAnd(input[18], 15)]])

(***************************************************************************)
(* color_map.rs and footer.rs are not among the sources; they are          *)
(* modelled from the specification (sections 3, 4.2 and 4.3).              *)
(***************************************************************************)
\* ColorMap::parse: no map unless the header flags one; a flagged map needs
\* an entry depth and color_map_len entries in the buffer
ColorMapParse(input, header) ==
    IF ~header.has_color_map THEN Ok([rest |-> input, color_map |-> None])
    ELSE IF header.color_map_depth = None THEN Err([kind |-> "Header"])
    ELSE LET entry_bpp == header.color_map_depth[1]
             length == header.color_map_len * bytes(entry_bpp)
         IN  IF Len(input) < length THEN Err([kind |-> "Header"])
             ELSE Ok([rest |-> Drop(input, length),
                      color_map |-> Some([start_index |-> header.color_map_start,
                                          length |-> header.color_map_len,
                                          entry_bpp |-> entry_bpp,
                                          data |-> SubSeq(input, 1, length)])])

\* nom's le_u32 over the four bytes at index i
le_u32(input, i) ==
    input[i] + 256 * input[i + 1] + 65536 * input[i + 2] + 16777216 * input[i + 3]

\* the ASCII signature "TRUEVISION-XFILE." and its terminating 0
FooterSignature ==
    <<84, 82, 85, 69, 86, 73, 83, 73, 79, 78, 45, 88, 70, 73, 76, 69, 46, 0>>

\* TgaFooter::parse: the last 26 bytes of the buffer, when they end with the
\* signature
TgaFooterParse(data) ==
    IF Len(data) < 26 THEN None
    ELSE IF SubSeq(data, Len(data) - 17, Len(data)) # FooterSignature THEN None
    ELSE Some([footer_start |-> Len(data) - 26,
               extension_area_start |-> le_u32(data, Len(data) - 25),
               developer_directory_start |-> le_u32(data, Len(data) - 21)])

\* TgaFooter::length: the bytes of the buffer from the footer on
FooterLength(footer, data) == Len(data) - footer.footer_start

\* the byte range an offset of the footer points to: from the offset up to
\* the footer, when the offset lies inside the buffer before the footer and
\* is not the 0 that stands for "no such area"; None for any other offset
FooterArea(footer, start, data) ==
    IF start > 0 /\ start < footer.footer_start
    THEN Some(SubSeq(data, start + 1, footer.footer_start))
    ELSE None

\* TgaFooter::developer_directory
FooterDeveloperDirectory(footer, data) ==
    FooterArea(footer, footer.developer_directory_start, data)

\* TgaFooter::extension_area
FooterExtensionArea(footer, data) ==
    FooterArea(footer, footer.extension_area_start, data)

(***************************************************************************)
(* raw_tga.rs: RawTga.                                                     *)
(***************************************************************************)
\* RawTga::from_slice
RawTgaFromSlice(data) ==
    LET h == TgaHeaderParse(data)
    IN  IF ~h.ok THEN Err([kind |-> "Header"])
        ELSE LET header == h.value.header
                 input1 == h.value.rest
             IN  \* parse_image_id: take(header.id_len)
                 IF Len(input1) < header.id_len THEN Err([kind |-> "Header"])
                 ELSE LET cm == ColorMapParse(Drop(input1, header.id_len), header)
                      IN  IF ~cm.ok THEN Err(cm.error)
                          ELSE LET input == cm.value.rest
                                   footer == TgaFooterParse(data)
                                   footer_length ==
                                        IF footer = None THEN 0
                                        ELSE FooterLength(footer[1], data)
                               IN  Ok([data |-> data,
                                       size |-> [width |-> header.width,
                                                 height |-> header.height],
                                       image_origin |-> header.image_origin,
                                       bpp |-> header.pixel_depth,
                                       compression |-> header.compression,
                                       data_type |-> header.data_type,
                                       color_map |-> cm.value.color_map,
                                       pixel_data |->
                                            SubSeq(input, 1,
                                                   saturating_sub(Len(input), footer_length))])

\* color_bpp answering with the depth of the stored pixels
color_bpp_of_image_data(raw) == raw.bpp

\* RawTga::color_bpp
color_bpp(raw) ==
    IF raw.color_map # None THEN raw.color_map[1].entry_bpp ELSE raw.bpp

\* RawTga::image_data_bpp
image_data_bpp(raw) == raw.bpp

\* RawTga::header: the header parsed again from the whole buffer
RawTgaHeader(raw) == TgaHeaderParse(raw.data).value.header

\* Option::and_then with the parse result taken as always present
developer_directory_unchecked(raw) ==
    FooterArea([footer_start |-> Len(raw.data)], 18, raw.data)

\* RawTga::developer_directory
developer_directory(raw) ==
    LET footer == TgaFooterParse(raw.data)
    IN  IF footer = None THEN None
        ELSE FooterDeveloperDirectory(footer[1], raw.data)

\* RawTga::extension_area
extension_area(raw) ==
    LET footer == TgaFooterParse(raw.data)
    IN  IF footer = None THEN None
        ELSE FooterExtensionArea(footer[1], raw.data)

(***************************************************************************)
(* lib.rs: Tga.  lib.rs asks the raw image for image_type().is_monochrome() *)
(* and image_type().is_rle(); raw_tga.rs holds data_type and compression,  *)
(* so the two are read off those fields, as the specification describes    *)
(* the data kind and the compression.                                      *)
(***************************************************************************)
is_monochrome(raw) == raw.data_type = "BlackAndWhite"

is_rle(raw) == raw.compression = "Rle"

\* the match of Tga::from_slice with the 16 bit arm taken for every data kind
ColorTypeOfIgnoringKind(bpp, monochrome) ==
    CASE bpp = "Bits8" /\ monochrome -> Some("Gray8")
      [] bpp = "Bits16" -> Some("Rgb555")
      [] bpp = "Bits24" /\ ~monochrome -> Some("Rgb888")
      [] OTHER -> None

\* the match on (color_bpp, is_monochrome) in Tga::from_slice
ColorTypeOf(bpp, monochrome) ==
    CASE bpp = "Bits8" /\ monochrome -> Some("Gray8")
      [] bpp = "Bits16" /\ ~monochrome -> Some("Rgb555")
      [] bpp = "Bits24" /\ ~monochrome -> Some("Rgb888")
      [] OTHER -> None

\* Tga::from_slice
TgaFromSlice(data) ==
    LET r == RawTgaFromSlice(data)
    IN  IF ~r.ok THEN r
        ELSE LET raw == r.value
                 image_color_type == ColorTypeOf(color_bpp(raw), is_monochrome(raw))
             IN  IF image_color_type = None
                 THEN Err([kind |-> "UnsupportedTgaType",
                           image_type |-> [data_type |-> raw.data_type,
                                           compression |-> raw.compression],
                           bpp |-> color_bpp(raw)])
                 ELSE Ok([raw |-> raw, image_color_type |-> image_color_type[1]])

\* CI::from(raw) of embedded-graphics: Gray8 keeps 8 bits, Rgb555 the low 15,
\* Rgb888 the low 24; the colour is kept with its type
ColorFrom(color_type, v) ==
    CASE color_type = "Gray8" -> [color_type |-> color_type, raw |-> <<v[1], 0, 0, 0>>]
      [] color_type = "Rgb555" ->
            [color_type |-> color_type, raw |-> <<v[1], v[2] % 128, 0, 0>>]
      [] OTHER -> [color_type |-> color_type, raw |-> <<v[1], v[2], v[3], 0>>]

\* ColorMap::get (modelled from the specification, section 3): the entry at
\* a zero-based index below the entry count, None for any other index
ColorMapGet(color_map, color_type, index) ==
    IF index[3] # 0 \/ index[4] # 0 \/ index[1] + 256 * index[2] >= color_map.length
    THEN None
    ELSE LET n == bytes(color_map.entry_bpp)
             i == index[1] + 256 * index[2]
         IN  Some(ColorFrom(color_type,
                            from_le_bytes(SubSeq(color_map.data, i * n + 1, i * n + n))))

\* One item of the colour iterator draw hands to draw_colors: the closure of
\* draw_regular ("regular") or of draw_color_mapped applied to the decoder's
\* next item.  unwrap() of a missing colour-map entry panics.
DrawColorNext(tga, mode, c) ==
    LET r == ColorsNext(c, bytes(tga.raw.bpp),
                        IF is_rle(tga.raw) THEN "Rle" ELSE "Uncompressed")
    IN  IF r.item = None THEN [colors |-> r.colors, item |-> None, panic |-> FALSE]
        ELSE IF mode = "regular"
        THEN [colors |-> r.colors, panic |-> FALSE,
              item |-> Some(ColorFrom(CASE tga.raw.bpp = "Bits8" -> "Gray8"
                                        [] tga.raw.bpp = "Bits16" -> "Rgb555"
                                        [] OTHER -> "Rgb888", r.item[1]))]
        ELSE LET e == ColorMapGet(tga.raw.color_map[1], tga.image_color_type, r.item[1])
             IN  [colors |-> r.colors, item |-> e, panic |-> (e = None)]

\* DrawTarget::fill_contiguous pulling up to n colours from the iterator
\* (Iterator::take(n) for a row): the colours it got, the decoder after it
RECURSIVE TakeColors(_, _, _, _)
TakeColors(tga, mode, c, n) ==
    IF n = 0 THEN [colors |-> c, items |-> <<>>, panic |-> FALSE]
    ELSE LET r == DrawColorNext(tga, mode, c)
         IN  IF r.panic THEN [colors |-> r.colors, items |-> <<>>, panic |-> TRUE]
             ELSE IF r.item = None
             THEN [colors |-> r.colors, items |-> <<>>, panic |-> FALSE]
             ELSE LET more == TakeColors(tga, mode, r.colors, n - 1)
                  IN  [more EXCEPT !.items = <<r.item[1]>> \o @]

\* the loop of the BottomLeft arm of draw_colors over the rows y, y - 1 .. 0
RECURSIVE DrawRows(_, _, _, _)
DrawRows(tga, mode, c, y) ==
    IF y < 0 THEN [status |-> "ok", fills |-> <<>>]
    ELSE LET w == tga.raw.size.width
             row == TakeColors(tga, mode, c, w)
             fill == [top_left |-> [x |-> 0, y |-> y],
                      size |-> [width |-> w, height |-> 1],
                      colors |-> row.items]
         IN  IF row.panic THEN [status |-> "panic", fills |-> <<>>]
             ELSE LET more == DrawRows(tga, mode, row.colors, y - 1)
                  IN  [more EXCEPT !.fills = <<fill>> \o @]

\* Tga::draw_colors; todo!() panics
draw_colors(tga, mode, c) ==
    LET w == tga.raw.size.width
        h == tga.raw.size.height
    IN  IF w = 0 \/ h = 0 THEN [status |-> "ok", fills |-> <<>>]
        ELSE CASE tga.raw.image_origin = "TopLeft" ->
                    LET all == TakeColors(tga, mode, c, w * h)
                    IN  IF all.panic THEN [status |-> "panic", fills |-> <<>>]
                        ELSE [status |-> "ok",
                              fills |-> <<[top_left |-> [x |-> 0, y |-> 0],
                                           size |-> [width |-> w, height |-> h],
                                           colors |-> all.items]>>]
               [] tga.raw.image_origin = "BottomLeft" -> DrawRows(tga, mode, c, h - 1)
               [] OTHER -> [status |-> "panic", fills |-> <<>>]

\* ImageDrawable::draw for Tga, with draw_regular and draw_color_mapped
Draw(tga) ==
    IF image_data_bpp(tga.raw) = "Bits32" THEN [status |-> "panic", fills |-> <<>>]
    ELSE IF tga.raw.color_map # None
    THEN draw_colors(tga, "color_mapped", RawColorsNew(tga.raw.pixel_data))
    ELSE draw_colors(tga, "regular", RawColorsNew(tga.raw.pixel_data))

(***************************************************************************)
(* pixels.rs: Pixels, the iterator behind Tga::pixels.                     *)
(***************************************************************************)
\* Pixels::new over the raw pixel iterator of the image; CI is the colour
\* type of the image
PixelsNew(tga) ==
    [raw |-> RawPixelsNew(tga.raw), color_type |-> "Gray8",
     image_color_type |-> tga.image_color_type]

\* Pixels::new_dynamic: CI is the marker Dynamic
PixelsNewDynamic(tga) ==
    [raw |-> RawPixelsNew(tga.raw), color_type |-> "Gray8",
     image_color_type |-> "Dynamic"]

\* Iterator::next of Pixels<CI, CT> and of Pixels<Dynamic, CT>: the raw
\* value of the next raw pixel made into a colour of type CI, or of the type
\* the field color_type names
PixelsNext(tga, it) ==
    LET r == RawPixelsNext(tga.raw, it.raw)
        ci == IF it.image_color_type = "Dynamic" THEN it.color_type
              ELSE it.image_color_type
    IN  [pixels |-> [it EXCEPT !.raw = r.pixels],
         item |-> IF r.item = None THEN None
                  ELSE Some([position |-> r.item[1].position,
                             color |-> ColorFrom(ci, r.item[1].color)])]

(***************************************************************************)
(* Inputs of a lone decoder.                                               *)
(***************************************************************************)
\* control bytes of raw packets of 1, 2 and 3 pixels and of a repeat packet
\* of 2 pixels; they double as colour bytes
SmallBytes == {0, 1, 2, 129}

\* the largest pixel count a control byte encodes: 0x7F + 1
MaxPacketPixels == 128

\* the j-th byte of the k-th colour of a test picture
PatternByte(seed, k, j) == (seed + 37 * k + 11 * j) % 256

\* n colours of N bytes each, stored one after the other
PatternBytes(seed, n, N) ==
    [i \in 1..(n * N) |-> PatternByte(seed, (i - 1) \div N, (i - 1) % N)]

Seeds == {5, 200}

\* what follows the first packet: nothing, or a raw or repeat packet of two
\* pixels whose first colour is complete or one byte short
Tails(N) ==
    {<<>>} \cup
    {SubSeq(<<c>> \o PatternBytes(90, 1, N), 1, k) : c \in {1, 129}, k \in {N, N + 1}}

\* one repeat packet of n pixels, then a tail
RepeatPacketInputs(N) ==
    {<<128 + (n - 1)>> \o PatternBytes(s, 1, N) \o t :
        n \in 1..MaxPacketPixels, s \in Seeds, t \in Tails(N)}

\* one raw packet of n pixels, then a tail
RawPacketInputs(N) ==
    {<<n - 1>> \o PatternBytes(s, n, N) \o t :
        n \in 1..MaxPacketPixels, s \in Seeds, t \in Tails(N)}

FileIdle ==
    /\ file = <<>>
    /\ type_byte = 0
    /\ image_type_result = None
    /\ raw_result = None
    /\ tga_result = None
    /\ draw_result = None
    /\ tga_pixels = None
    /\ tga_out = <<>>
    /\ tga_ended = FALSE

PixelsIdle ==
    /\ raw_tga = <<>>
    /\ pixels = <<>>
    /\ out = <<>>
    /\ ended = FALSE

RefIdle ==
    /\ ref_tga = <<>>
    /\ ref_pixels = <<>>
    /\ ref_out = <<>>
    /\ ref_ended = FALSE

ColorsIdle ==
    /\ raw_data_type = 1
    /\ format = "Uncompressed"
    /\ image_data = <<>>
    /\ colors = <<>>
    /\ limit = 0
    /\ calls = 0
    /\ item = None

\* A decoder right after RawColors::new, and the number of items its
\* consumer will pull.
InitColors ==
    /\ raw_data_type \in 1..4
    /\ format \in Compressions
    /\ \/ /\ image_data \in SeqsUpTo(SmallBytes, MaxData)
          /\ limit = MaxCalls
       \/ /\ format = "Rle"
          /\ image_data \in RepeatPacketInputs(raw_data_type) \cup RawPacketInputs(raw_data_type)
          /\ limit = (image_data[1] % 128) + 3
    /\ colors = RawColorsNew(image_data)
    /\ calls = 0
    /\ item = None
    /\ FileIdle
    /\ PixelsIdle
    /\ RefIdle

\* The consumer calls next() on the decoder.
ColorsIterNext ==
    /\ calls < limit
    /\ LET r == ColorsNext(colors, raw_data_type, format)
       IN  /\ colors' = r.colors
           /\ item' = r.item
    /\ calls' = calls + 1
    /\ UNCHANGED <<raw_data_type, format, image_data, limit>>
    /\ UNCHANGED fileVars
    /\ UNCHANGED pixelsVars
    /\ UNCHANGED refVars

NextColors == ColorsIterNext

SpecColors == InitColors /\ [][NextColors]_vars

(***************************************************************************)
(* The raw pixel iterator over an image with arbitrary pixel data.         *)
(***************************************************************************)
\* control bytes of raw packets of 1 and 2 pixels and of a repeat packet of
\* 2 pixels; they double as colour bytes
PixelBytes == {0, 1, 129}

\* the 18 bytes of a header with the given fields (section 6 of the
\* specification; the order TgaHeader::parse reads them in)
HeaderBytes(f) ==
    <<f.id_len, f.has_color_map, f.image_type,
      f.color_map_start % 256, f.color_map_start \div 256,
      f.color_map_len % 256, f.color_map_len \div 256,
      f.color_map_depth,
      f.x_origin % 256, f.x_origin \div 256,
      f.y_origin % 256, f.y_origin \div 256,
      f.width % 256, f.width \div 256,
      f.height % 256, f.height \div 256,
      f.pixel_depth, f.image_descriptor>>

\* a 24 bit uncompressed true-colour image, top-left origin, no colour map
DefaultFields ==
    [id_len |-> 0, has_color_map |-> 0, image_type |-> 2, color_map_start |-> 0,
     color_map_len |-> 0, color_map_depth |-> 0, x_origin |-> 0, y_origin |-> 0,
     width |-> FileSide, height |-> FileSide, pixel_depth |-> 24,
     image_descriptor |-> 32]

\* the image-descriptor byte of an origin: bits 4 and 5
DescriptorOf(origin) ==
    CASE origin = "BottomLeft" -> 0
      [] origin = "BottomRight" -> 16
      [] origin = "TopLeft" -> 32
      [] origin = "TopRight" -> 48

\* a true-colour image without colour map, image id or footer, as a file
TrueColorFile(w, h, origin, b, c, d) ==
    HeaderBytes([DefaultFields EXCEPT
                    !.image_type = IF c = "Rle" THEN 10 ELSE 2,
                    !.width = w, !.height = h,
                    !.pixel_depth = bits(b),
                    !.image_descriptor = DescriptorOf(origin)]) \o d

\* an image as RawTga::from_slice returns it for TrueColorFile
Image(w, h, origin, b, c, d) ==
    RawTgaFromSlice(TrueColorFile(w, h, origin, b, c, d)).value

\* RawTga::from_slice has run on a file, RawTga::pixels on its result.
InitPixels ==
    /\ \E w \in 0..MaxWidth, h \in 0..MaxHeight, origin \in ImageOrigins,
          b \in BppValues, c \in Compressions,
          d \in SeqsUpTo(PixelBytes, MaxPixelData) :
            file = TrueColorFile(w, h, origin, b, c, d)
    /\ type_byte = file[3]
    /\ image_type_result = None
    /\ raw_result = Some(RawTgaFromSlice(file))
    /\ tga_result = None
    /\ draw_result = None
    /\ tga_pixels = None
    /\ tga_out = <<>>
    /\ tga_ended = FALSE
    /\ raw_tga = IF raw_result[1].ok THEN raw_result[1].value ELSE <<>>
    /\ pixels = IF raw_result[1].ok THEN RawPixelsNew(raw_tga) ELSE <<>>
    /\ out = <<>>
    /\ ended = FALSE
    /\ ColorsIdle
    /\ RefIdle

\* The consumer calls next() on the raw pixel iterator.
PixelsIterNext ==
    /\ raw_result[1].ok
    /\ LET r == RawPixelsNext(raw_tga, pixels)
       IN  /\ pixels' = r.pixels
           /\ out' = IF r.item = None THEN out ELSE Append(out, r.item[1])
           /\ ended' = (ended \/ r.item = None)
    /\ UNCHANGED raw_tga
    /\ UNCHANGED fileVars
    /\ UNCHANGED colorsVars
    /\ UNCHANGED refVars

NextPixels == PixelsIterNext

SpecPixels == InitPixels /\ [][NextPixels]_vars

(***************************************************************************)
(* An RLE image and the uncompressed image that stores the same pixels,    *)
(* iterated side by side.                                                  *)
(***************************************************************************)
RECURSIVE Flatten(_)
Flatten(ss) == IF ss = <<>> THEN <<>> ELSE Head(ss) \o Flatten(Tail(ss))

\* every way of packing the colours vals (each a string of N bytes) into raw
\* and repeat packets: control byte count - 1 with bit 7 clear and the
\* colours, or control byte count - 1 with bit 7 set and the one colour
RECURSIVE RlePackings(_)
RlePackings(vals) ==
    IF vals = <<>> THEN {<<>>}
    ELSE UNION {
        LET run == SubSeq(vals, 1, k)
            rests == RlePackings(Drop(vals, k))
        IN  {<<k - 1>> \o Flatten(run) \o t : t \in rests}
            \cup
            (IF \A i \in 1..k : run[i] = run[1]
             THEN {<<128 + (k - 1)>> \o run[1] \o t : t \in rests}
             ELSE {})
        : k \in 1..Min(Len(vals), MaxPacketPixels)}

\* two colours of N bytes
PixelValues(N) == {PatternBytes(s, 1, N) : s \in Seeds}

InitRle ==
    /\ \E w \in 1..MaxPixels, h \in 1..MaxPixels, origin \in ImageOrigins, b \in BppValues :
        /\ w * h <= MaxPixels
        /\ \E vals \in [1..(w * h) -> PixelValues(bytes(b))] :
            /\ ref_tga = Image(w, h, origin, b, "Uncompressed", Flatten(vals))
            /\ \E packed \in RlePackings(vals) :
                raw_tga = Image(w, h, origin, b, "Rle", packed)
    /\ pixels = RawPixelsNew(raw_tga)
    /\ out = <<>>
    /\ ended = FALSE
    /\ ref_pixels = RawPixelsNew(ref_tga)
    /\ ref_out = <<>>
    /\ ref_ended = FALSE
    /\ FileIdle
    /\ ColorsIdle

\* The consumer calls next() on both iterators.
BothIterNext ==
    /\ LET r == RawPixelsNext(raw_tga, pixels)
       IN  /\ pixels' = r.pixels
           /\ out' = IF r.item = None THEN out ELSE Append(out, r.item[1])
           /\ ended' = (ended \/ r.item = None)
    /\ LET r == RawPixelsNext(ref_tga, ref_pixels)
       IN  /\ ref_pixels' = r.pixels
           /\ ref_out' = IF r.item = None THEN ref_out ELSE Append(ref_out, r.item[1])
           /\ ref_ended' = (ref_ended \/ r.item = None)
    /\ UNCHANGED <<raw_tga, ref_tga>>
    /\ UNCHANGED fileVars
    /\ UNCHANGED colorsVars

NextRle == BothIterNext

SpecRle == InitRle /\ [][NextRle]_vars

(***************************************************************************)
(* Claims about the raw pixel iterator (SpecRle, SpecPixels).              *)
(***************************************************************************)
\* C1: the raw pixel iterator over an RLE image yields, call by call, the
\* same (position, value) pairs as the raw pixel iterator over the
\* uncompressed image that stores the same pixel values, and ends with it.
C1_RleEqualsUncompressed ==
    /\ out = ref_out
    /\ ended = ref_ended
    /\ (ended => Len(out) = raw_tga.size.width * raw_tga.size.height)

\* both iterators have ended over a 2 by 2 bottom-origin image packed as a
\* raw packet of three pixels and a repeat packet of one: the raw packet runs
\* across the row boundary
C1_Witness ==
    /\ ended
    /\ ref_ended
    /\ Len(out) = 4
    /\ raw_tga.size.width = 2
    /\ raw_tga.image_origin = "BottomLeft"
    /\ raw_tga.pixel_data[1] = 2
    /\ raw_tga.pixel_data[Len(raw_tga.pixel_data) - bytes(raw_tga.bpp)] = 128

\* C4: the k-th position the raw pixel iterator yields (k counted from 0,
\* k < width * height) is (k mod width, k div width) for a top-left image and
\* (k mod width, height - 1 - k div width) for a bottom-left image.
C4_PositionOfKth ==
    LET w == raw_tga.size.width
        h == raw_tga.size.height
    IN  \A i \in 1..Len(out) :
            i - 1 < w * h =>
                /\ raw_tga.image_origin = "TopLeft" =>
                        out[i].position = [x |-> (i - 1) % w, y |-> (i - 1) \div w]
                /\ raw_tga.image_origin = "BottomLeft" =>
                        out[i].position = [x |-> (i - 1) % w, y |-> h - 1 - ((i - 1) \div w)]

\* every position of a bottom-left image of 2 by 2 pixels has been yielded
C4_Witness ==
    /\ raw_tga.image_origin = "BottomLeft"
    /\ raw_tga.size = [width |-> 2, height |-> 2]
    /\ Len(out) = 4
    /\ out[3].position = [x |-> 0, y |-> 0]

\* the file is an uncompressed image whose pixel data (all that follows the
\* 18 header bytes) is shorter than width * height * bytes per pixel
TruncatedUncompressed ==
    /\ file[3] = 2
    /\ (Len(file) - 18) * 8 < le_u16(file, 13) * le_u16(file, 15) * file[17]

\* C5: for an uncompressed image whose pixel data is shorter than width *
\* height * bytes per pixel, RawTga::from_slice succeeds, the raw pixel
\* iterator never yields more than width * height pixels, has yielded exactly
\* that many when it ends, and every pixel whose bytes are not all there has
\* the value 0.
C5_TruncatedUncompressed ==
    TruncatedUncompressed =>
        LET w == le_u16(file, 13)
            h == le_u16(file, 15)
            N == file[17] \div 8
        IN  /\ raw_result[1].ok
            /\ Len(out) <= w * h
            /\ (ended => Len(out) = w * h)
            /\ \A i \in 1..Len(out) :
                    i * N > Len(file) - 18 => out[i].color = Zero32

\* a 2 by 2 image with data for one pixel only has been iterated to its end:
\* one stored colour, three zero pixels
C5_Witness ==
    /\ TruncatedUncompressed
    /\ ended
    /\ Len(out) = 4
    /\ out[1].color # Zero32
    /\ out[4].color = Zero32

(***************************************************************************)
(* Claims about the lone decoder (SpecColors).                             *)
(***************************************************************************)
\* the colour stored in the N bytes of s that start at index i
ColorAt(s, i, N) == [j \in 1..4 |-> IF j <= N THEN s[i + j - 1] ELSE 0]

\* the data starts with a complete repeat packet
StartsWithRepeatPacket ==
    /\ format = "Rle"
    /\ Len(image_data) >= 1 + raw_data_type
    /\ image_data[1] >= 128

\* C2: when the RLE data starts with the repeat packet 0x80 + (n - 1), v, the
\* first n calls of next() return v, after them the cursor is at the byte
\* right after v with no count pending, and call n + 1 returns the first
\* colour of the next packet (None when no complete one follows).
C2_RepeatPacketRoundTrip ==
    StartsWithRepeatPacket =>
        LET N == raw_data_type
            n == image_data[1] - 128 + 1
            v == ColorAt(image_data, 2, N)
            rest == Drop(image_data, 1 + N)
        IN  /\ (calls \in 1..n => item = Some(v))
            /\ (calls = n =>
                    /\ colors.remaining_data = rest
                    /\ colors.rle_repeat = 0
                    /\ colors.rle_take_raw = 0)
            /\ (calls = n + 1 =>
                    item = IF Len(rest) >= 1 + N THEN Some(ColorAt(rest, 2, N)) ELSE None)

\* a repeat packet of 128 pixels has been replayed and the next packet entered
C2_Witness ==
    /\ StartsWithRepeatPacket
    /\ image_data[1] = 255
    /\ calls = 129
    /\ item # None

\* the data starts with a complete raw packet
StartsWithRawPacket ==
    /\ format = "Rle"
    /\ image_data # <<>>
    /\ image_data[1] < 128
    /\ Len(image_data) >= 1 + (image_data[1] + 1) * raw_data_type

\* C3: when the RLE data starts with the raw packet n - 1, v1 .. vn, the k-th
\* call of next() (k <= n) returns vk and leaves the cursor right after vk, so
\* the n values come out in stored order before the next control byte is read.
C3_RawPacketRoundTrip ==
    StartsWithRawPacket =>
        LET N == raw_data_type
            n == image_data[1] + 1
        IN  calls \in 1..n =>
                /\ item = Some(ColorAt(image_data, 2 + (calls - 1) * N, N))
                /\ colors.remaining_data = Drop(image_data, 1 + calls * N)
                /\ colors.rle_take_raw = n - calls

\* a raw packet of 128 three-byte pixels has been read to its last value
C3_Witness ==
    /\ StartsWithRawPacket
    /\ image_data[1] = 127
    /\ raw_data_type = 3
    /\ calls = 128
    /\ item = Some(ColorAt(image_data, 2 + 127 * 3, 3))

\* The next call of next() finds a packet whose payload is missing: a raw
\* packet still owes a pixel, or a control byte is next, and fewer than N
\* bytes follow.
MidPacketUnderrun ==
    /\ format = "Rle"
    /\ calls < limit
    /\ colors.rle_repeat = 0
    /\ \/ /\ colors.rle_take_raw > 0
          /\ Len(colors.remaining_data) < raw_data_type
       \/ /\ colors.rle_take_raw = 0
          /\ colors.remaining_data # <<>>
          /\ Len(colors.remaining_data) - 1 < raw_data_type

\* C6 as stated: a call that finds the input ended in the middle of a packet
\* returns a zero-valued pixel.
C6_ZeroPixelsMidPacket ==
    [][MidPacketUnderrun => item' = Some(Zero32)]_vars

\* C6 amended: a call that finds the input ended in the middle of a packet
\* returns None (the iteration ends) and consumes at most the control byte.
C6_EndsMidPacket ==
    [][MidPacketUnderrun =>
        /\ item' = None
        /\ Len(colors.remaining_data) - Len(colors'.remaining_data) \in {0, 1}]_vars

\* the decoder has returned None with bytes of a cut-off packet left over
C6_Witness ==
    /\ format = "Rle"
    /\ calls >= 1
    /\ item = None
    /\ colors.remaining_data # <<>>

(***************************************************************************)
(* Files handed to the constructors (Spec): a caller parses an image-type  *)
(* byte, builds a RawTga and a Tga from a byte buffer, and draws the Tga.  *)
(***************************************************************************)
\* the image types parse_image_type lets through
ValidImageTypes == {0, 1, 2, 3, 9, 10, 11}

\* the colour map of a file: color_map_len entries of color_map_depth bits,
\* when the header flags a map and gives its depth
ColorMapBytes(f) ==
    IF f.has_color_map = 1 /\ Bpp_new(f.color_map_depth) # None
    THEN PatternBytes(5, f.color_map_len, f.color_map_depth \div 8)
    ELSE <<>>

\* pixel data for the image of a header: all zero, a picture, or the first
\* byte of the picture only
PixelDataChoices(f) ==
    LET n == f.width * f.height * (f.pixel_depth \div 8)
    IN  {[i \in 1..n |-> 0],
         PatternBytes(200, f.width * f.height, f.pixel_depth \div 8),
         [i \in 1..Min(n, 1) |-> 200]}

\* a file without footer: header, image id, colour map, pixel data
FileOf(f, d) ==
    HeaderBytes(f) \o [i \in 1..f.id_len |-> 65] \o ColorMapBytes(f) \o d

\* every image-type byte, over an 8 and a 24 bit picture
ImageTypeSweep ==
    {[DefaultFields EXCEPT !.image_type = t, !.pixel_depth = b] :
        t \in 0..255, b \in {8, 24}}

\* every supported image type with and without a colour map of two entries,
\* every pixel and colour-map depth, every origin, an empty and a full size
FormatProduct ==
    {[DefaultFields EXCEPT !.image_type = t, !.has_color_map = m,
                           !.color_map_len = 2, !.color_map_depth = cd,
                           !.pixel_depth = pd, !.image_descriptor = o,
                           !.width = w] :
        t \in ValidImageTypes, m \in {0, 1}, cd \in {0, 8, 16, 24, 32},
        pd \in {8, 16, 24, 32}, o \in {0, 16, 32, 48}, w \in {0, FileSide}}

\* every image-descriptor byte
DescriptorSweep ==
    {[DefaultFields EXCEPT !.image_descriptor = d] : d \in 0..255}

\* headers with a good or bad colour-map flag, image type and pixel depth,
\* with and without an image id
FieldProduct ==
    {[DefaultFields EXCEPT !.has_color_map = m, !.image_type = t,
                           !.pixel_depth = pd, !.id_len = il] :
        m \in {0, 1, 2, 255}, t \in {2, 4, 8}, pd \in {24, 15}, il \in {0, 3}}

\* a 2 by 2 gray picture followed by two bytes of extension or developer
\* data and a footer: the two offsets, then the signature, whole or with a
\* wrong last or first byte
FooterFiles ==
    {FileOf([DefaultFields EXCEPT !.image_type = 3, !.pixel_depth = 8,
                                  !.width = 2, !.height = 2], <<1, 2, 3, 4>>)
        \o <<7, 9>> \o <<e, 0, 0, 0>> \o <<d, 0, 0, 0>> \o sig :
        e \in {0, 22, 23, 30}, d \in {0, 22, 23, 30},
        sig \in {FooterSignature,
                 [FooterSignature EXCEPT ![18] = 1],
                 [FooterSignature EXCEPT ![1] = 116]}}

\* the files: whole ones, and every prefix of the files of FieldProduct
Files ==
    {[bytes |-> FileOf(f, PatternBytes(200, f.width * f.height, f.pixel_depth \div 8)),
      image_type |-> f.image_type] : f \in ImageTypeSweep \cup DescriptorSweep}
    \cup UNION {{[bytes |-> FileOf(f, d), image_type |-> f.image_type] :
                    d \in PixelDataChoices(f)} : f \in FormatProduct}
    \cup UNION {{[bytes |-> SubSeq(FileOf(f, <<>>), 1, n), image_type |-> f.image_type] :
                    n \in 0..(18 + f.id_len)} : f \in FieldProduct}
    \cup {[bytes |-> b, image_type |-> 3] : b \in FooterFiles}

Init ==
    /\ \E f \in Files :
        /\ file = f.bytes
        /\ type_byte = f.image_type
    /\ image_type_result = None
    /\ raw_result = None
    /\ tga_result = None
    /\ draw_result = None
    /\ tga_pixels = None
    /\ tga_out = <<>>
    /\ tga_ended = FALSE
    /\ ColorsIdle
    /\ PixelsIdle
    /\ RefIdle

\* parse_image_type(type_byte)
ParseImageType ==
    /\ image_type_result = None
    /\ image_type_result' = Some(parse_image_type(type_byte))
    /\ UNCHANGED <<file, type_byte, raw_result, tga_result, draw_result,
                 tga_pixels, tga_out, tga_ended>>
    /\ UNCHANGED <<colorsVars, pixelsVars, refVars>>

\* RawTga::from_slice(file)
RawFromSlice ==
    /\ raw_result = None
    /\ raw_result' = Some(RawTgaFromSlice(file))
    /\ UNCHANGED <<file, type_byte, image_type_result, tga_result, draw_result,
                 tga_pixels, tga_out, tga_ended>>
    /\ UNCHANGED <<colorsVars, pixelsVars, refVars>>

\* Tga::from_slice(file)
FromSlice ==
    /\ tga_result = None
    /\ tga_result' = Some(TgaFromSlice(file))
    /\ UNCHANGED <<file, type_byte, image_type_result, raw_result, draw_result,
                 tga_pixels, tga_out, tga_ended>>
    /\ UNCHANGED <<colorsVars, pixelsVars, refVars>>

\* tga.draw(&mut display) on the Tga that Tga::from_slice returned
DrawImage ==
    /\ tga_result # None
    /\ tga_result[1].ok
    /\ draw_result = None
    /\ draw_result' = Some(Draw(tga_result[1].value))
    /\ UNCHANGED <<file, type_byte, image_type_result, raw_result, tga_result,
                 tga_pixels, tga_out, tga_ended>>
    /\ UNCHANGED <<colorsVars, pixelsVars, refVars>>

\* tga.pixels(): lib.rs calls Pixels::new(self); pixels.rs has the typed
\* constructor new and the dynamic constructor new_dynamic, both over the
\* image's raw pixel iterator, and either may stand behind the call.
TgaPixels ==
    /\ tga_result # None
    /\ tga_result[1].ok
    /\ tga_pixels = None
    /\ \E kind \in {"typed", "dynamic"} :
        tga_pixels' = Some(IF kind = "typed"
                           THEN PixelsNew(tga_result[1].value)
                           ELSE PixelsNewDynamic(tga_result[1].value))
    /\ UNCHANGED <<file, type_byte, image_type_result, raw_result, tga_result,
                   draw_result, tga_out, tga_ended>>
    /\ UNCHANGED <<colorsVars, pixelsVars, refVars>>

\* next() on the iterator tga.pixels() returned
TgaPixelsNext ==
    /\ tga_pixels # None
    /\ ~tga_ended
    /\ LET r == PixelsNext(tga_result[1].value, tga_pixels[1])
       IN  /\ tga_pixels' = Some(r.pixels)
           /\ tga_out' = IF r.item = None THEN tga_out ELSE Append(tga_out, r.item[1])
           /\ tga_ended' = (r.item = None)
    /\ UNCHANGED <<file, type_byte, image_type_result, raw_result, tga_result, draw_result>>
    /\ UNCHANGED <<colorsVars, pixelsVars, refVars>>

Next ==
    \/ ParseImageType
    \/ RawFromSlice
    \/ FromSlice
    \/ DrawImage
    \/ TgaPixels
    \/ TgaPixelsNext

Spec == Init /\ [][Next]_vars

(***************************************************************************)
(* Claims about the constructors and draw (Spec).                          *)
(***************************************************************************)
\* C7: once Tga::from_slice has returned success, drawing the image never
\* aborts, whatever the origin, the depths, the colour map and the pixel data.
C7_DrawNeverAborts ==
    draw_result # None => draw_result[1].status = "ok"

\* the data kind the low two bits of an image-type byte select
DataKindOfBits(b) ==
    CASE b % 4 = 0 -> "NoData"
      [] b % 4 = 1 -> "ColorMapped"
      [] b % 4 = 2 -> "TrueColor"
      [] b % 4 = 3 -> "BlackAndWhite"

\* C8: for every image-type byte b in 0..255, parse_image_type succeeds
\* exactly when b is one of 0, 1, 2, 3, 9, 10, 11 (only bits 0, 1 and 3 used,
\* and not 8); on success the data kind is the one the low two bits select
\* and the compression is RLE exactly when bit 3 is set; for every other
\* byte, 8 included, it fails with the unsupported-image-type error.
C8_ImageTypeClassification ==
    image_type_result # None =>
        LET b == type_byte
            r == image_type_result[1]
        IN  /\ r.ok <=> (b \in {0, 1, 2, 3, 9, 10, 11})
            /\ r.ok <=> (b < 16 /\ (b \div 4) % 2 = 0 /\ b # 8)
            /\ r.ok => /\ r.value.data_type = DataKindOfBits(b)
                       /\ (r.value.compression = "Rle") <=> ((b \div 8) % 2 = 1)
                       /\ r.value.compression \in Compressions
            /\ ~r.ok => r.error.kind = "UnsupportedImageType"

\* byte 11 has been classified as RLE black and white
C8_Witness ==
    /\ image_type_result # None
    /\ type_byte = 11
    /\ image_type_result[1].ok
    /\ image_type_result[1].value.data_type = "BlackAndWhite"
    /\ image_type_result[1].value.compression = "Rle"

\* C9: a failing RawTga::from_slice returns the error of the first field
\* that fails: the colour-map error for a has-color-map byte other than 0
\* and 1, the unsupported-image-type error for an image-type byte outside
\* 0, 1, 2, 3, 9, 10, 11, the header error for a buffer that ends inside the
\* header's fixed-width fields.
C9_ClassifiedHeaderErrors ==
    (raw_result # None /\ ~raw_result[1].ok) =>
        LET e == raw_result[1].error
        IN  /\ (Len(file) >= 2 /\ file[2] \notin {0, 1}) => e.kind = "ColorMap"
            /\ (Len(file) >= 3 /\ file[2] \in {0, 1} /\ file[3] \notin ValidImageTypes)
                    => e.kind = "UnsupportedImageType"
            /\ (Len(file) < 18
                    /\ (Len(file) >= 2 => file[2] \in {0, 1})
                    /\ (Len(file) >= 3 => file[3] \in ValidImageTypes)
                    /\ (Len(file) >= 17 => file[17] \in {8, 16, 24, 32}))
                    => e.kind = "Header"

\* the bit depth of the colours of a raw image: of the colour-map entries
\* when there is a map, of the pixels when there is none
ColorDepthOf(raw) ==
    IF raw.color_map # None THEN raw.color_map[1].entry_bpp ELSE raw.bpp

\* C10: Tga::from_slice on a buffer RawTga::from_slice parses: 8 bit
\* colours with the grayscale data kind give Gray8, 16 bit colours with any
\* other data kind Rgb555, 24 bit colours with any other data kind Rgb888;
\* every other combination fails with the unsupported-format error that
\* carries the image's data kind and colour bit depth.
C10_ColorTypeClassification ==
    (raw_result # None /\ tga_result # None /\ raw_result[1].ok) =>
        LET raw == raw_result[1].value
            t == tga_result[1]
            depth == ColorDepthOf(raw)
            gray == raw.data_type = "BlackAndWhite"
        IN  CASE depth = "Bits8" /\ gray ->
                    t.ok /\ t.value.image_color_type = "Gray8" /\ t.value.raw = raw
              [] depth = "Bits16" /\ ~gray ->
                    t.ok /\ t.value.image_color_type = "Rgb555" /\ t.value.raw = raw
              [] depth = "Bits24" /\ ~gray ->
                    t.ok /\ t.value.image_color_type = "Rgb888" /\ t.value.raw = raw
              [] OTHER ->
                    /\ ~t.ok
                    /\ t.error.kind = "UnsupportedTgaType"
                    /\ t.error.image_type.data_type = raw.data_type
                    /\ t.error.bpp = depth

\* both constructors have run on a colour-mapped image with 8 bit pixels and
\* 16 bit map entries, which is 15-bit RGB
C10_Witness ==
    /\ raw_result # None
    /\ tga_result # None
    /\ raw_result[1].ok
    /\ raw_result[1].value.bpp = "Bits8"
    /\ raw_result[1].value.color_map # None
    /\ tga_result[1].ok
    /\ tga_result[1].value.image_color_type = "Rgb555"

\* C11: Tga::from_slice on a buffer whose header gives a pixel depth of 32
\* fails, with or without a colour map, and with the unsupported-format
\* error whenever the buffer parses as a raw image; draw is never reached.
C11_Bits32Rejected ==
    (tga_result # None /\ Len(file) >= 18 /\ file[17] = 32) =>
        /\ ~tga_result[1].ok
        /\ RawTgaFromSlice(file).ok => tga_result[1].error.kind = "UnsupportedTgaType"

\* the Tga that Tga::from_slice returned, and its size
DrawnTga == tga_result[1].value
DrawnWidth == DrawnTga.raw.size.width
DrawnHeight == DrawnTga.raw.size.height

\* an image of non-zero size with the given origin has been drawn
Drawn(origin) ==
    /\ draw_result # None
    /\ DrawnTga.raw.image_origin = origin
    /\ DrawnWidth >= 1
    /\ DrawnHeight >= 1

\* the first width * height colours of the colour stream draw builds: the
\* decoded pixel values, mapped through the colour map when there is one
ColourStream ==
    TakeColors(DrawnTga,
               IF DrawnTga.raw.color_map # None THEN "color_mapped" ELSE "regular",
               RawColorsNew(DrawnTga.raw.pixel_data),
               DrawnWidth * DrawnHeight).items

\* the i-th group of w colours of a stream (shorter when the stream ends)
Group(stream, w, i) ==
    SubSeq(stream, Min(Len(stream), (i - 1) * w) + 1, Min(Len(stream), i * w))

\* C12: drawing a bottom-left-origin image of width w >= 1 and height h >= 1
\* completes with exactly h fills; the i-th fill is over the w by 1 rectangle
\* at row h - i and receives the i-th group of w colours of the colour stream.
C12_BottomLeftRowFills ==
    Drawn("BottomLeft") =>
        LET r == draw_result[1]
        IN  /\ r.status = "ok"
            /\ Len(r.fills) = DrawnHeight
            /\ \A i \in 1..Len(r.fills) :
                /\ r.fills[i].top_left = [x |-> 0, y |-> DrawnHeight - i]
                /\ r.fills[i].size = [width |-> DrawnWidth, height |-> 1]
                /\ r.fills[i].colors = Group(ColourStream, DrawnWidth, i)

\* C13: drawing a top-right- or bottom-right-origin image of non-zero size
\* completes, and emits the k-th pixel of the raw iteration, at (x, y), on its
\* own at (max_x - x, y) for top-right and (max_x - x, max_y - y) for
\* bottom-right.
C13_RightOriginsDrawn ==
    (Drawn("TopRight") \/ Drawn("BottomRight")) =>
        LET r == draw_result[1]
            w == DrawnWidth
            h == DrawnHeight
        IN  /\ r.status = "ok"
            /\ Len(r.fills) = Len(ColourStream)
            /\ \A k \in 1..Len(r.fills) :
                LET x == (k - 1) % w
                    y == IF is_bottom(DrawnTga.raw.image_origin)
                         THEN h - 1 - ((k - 1) \div w) ELSE (k - 1) \div w
                IN  /\ r.fills[k].size = [width |-> 1, height |-> 1]
                    /\ r.fills[k].colors = <<ColourStream[k]>>
                    /\ r.fills[k].top_left =
                            IF DrawnTga.raw.image_origin = "TopRight"
                            THEN [x |-> w - 1 - x, y |-> y]
                            ELSE [x |-> w - 1 - x, y |-> h - 1 - y]

\* C14: drawing a top-left-origin image of non-zero size completes with
\* exactly one fill, over the rectangle at (0, 0) of the image's width and
\* height, with the colours of the colour stream in stored order.
C14_TopLeftOneFill ==
    Drawn("TopLeft") =>
        LET r == draw_result[1]
        IN  /\ r.status = "ok"
            /\ Len(r.fills) = 1
            /\ r.fills[1].top_left = [x |-> 0, y |-> 0]
            /\ r.fills[1].size = [width |-> DrawnWidth, height |-> DrawnHeight]
            /\ r.fills[1].colors = ColourStream

\* the colours draw wrote at position p: the k-th colour of a fill goes to
\* the k-th position of its rectangle, row by row
WrittenAt(fills, p) ==
    {fills[i].colors[k] :
        <<i, k>> \in {<<i, k>> \in (DOMAIN fills) \X (1..(FileSide * FileSide)) :
                        /\ k <= Len(fills[i].colors)
                        /\ fills[i].size.width > 0
                        /\ p.x = fills[i].top_left.x + ((k - 1) % fills[i].size.width)
                        /\ p.y = fills[i].top_left.y + ((k - 1) \div fills[i].size.width)}}

\* C15: for an image with top-left or bottom-left origin that has been drawn,
\* every pixel Tga::pixels yields has the colour draw wrote at its position
\* (for a colour-mapped image the colour-map entry, not the index), and a
\* completed draw of an image of non-zero size wrote at every position the
\* iterator yields.
C15_PixelsMatchDraw ==
    (draw_result # None /\ DrawnTga.raw.image_origin \in {"TopLeft", "BottomLeft"}) =>
        \A i \in 1..Len(tga_out) :
            LET written == WrittenAt(draw_result[1].fills, tga_out[i].position)
            IN  /\ \A c \in written : c = tga_out[i].color
                /\ (draw_result[1].status = "ok" /\ DrawnWidth >= 1) => written # {}

\* the Bpp a depth byte of 8, 16, 24 or 32 stands for
BppOfByte(b) ==
    CASE b = 8 -> "Bits8" [] b = 16 -> "Bits16" [] b = 24 -> "Bits24" [] b = 32 -> "Bits32"

NoFooter ==
    \/ Len(file) < 26
    \/ SubSeq(file, Len(file) - 17, Len(file)) # FooterSignature

\* the buffer holds a whole header with valid fields, the image id and the
\* colour map the header announces
HeaderIdAndMapPresent ==
    /\ Len(file) >= 18
    /\ file[2] \in {0, 1}
    /\ file[3] \in ValidImageTypes
    /\ file[17] \in {8, 16, 24, 32}
    /\ file[2] = 1 => file[8] \in {8, 16, 24, 32}
    /\ Len(file) >= 18 + file[1]
                     + (IF file[2] = 1 THEN le_u16(file, 6) * (file[8] \div 8) ELSE 0)

\* C17: for a buffer without footer RawTga::from_slice succeeds whenever
\* the header, the image id and the colour map are there, and on the image
\* it returns developer_directory() and extension_area() are both None.
C17_NoFooterNoAreas ==
    (raw_result # None /\ NoFooter) =>
        /\ raw_result[1].ok <=> HeaderIdAndMapPresent
        /\ raw_result[1].ok =>
            /\ developer_directory(raw_result[1].value) = None
            /\ extension_area(raw_result[1].value) = None

\* RawTga::from_slice has succeeded on a buffer of 50 bytes that ends with
\* two offsets into the buffer and a signature whose last byte is wrong
C17_Witness ==
    /\ raw_result # None
    /\ raw_result[1].ok
    /\ Len(file) = 50
    /\ file[25] = 22
    /\ file[29] = 23
    /\ SubSeq(file, 33, 49) = SubSeq(FooterSignature, 1, 17)
    /\ file[50] # 0
    /\ developer_directory(raw_result[1].value) = None

\* the depth bytes Bpp::new knows
DepthBytes == {8, 16, 24, 32}

\* C19: RawTga::from_slice fails on a header whose pixel-depth byte is not
\* 8, 16, 24 or 32; it fails on a colour-map-depth byte that is not 8, 16, 24
\* or 32 when the has-color-map byte is 1; when that byte is 0 (and the rest
\* of the buffer is in order) it succeeds and header() reports no colour-map
\* depth.
C19_DepthBytes ==
    (raw_result # None /\ Len(file) >= 18) =>
        /\ file[17] \notin DepthBytes => ~raw_result[1].ok
        /\ (file[8] \notin DepthBytes /\ file[2] = 1) => ~raw_result[1].ok
        /\ (file[8] \notin DepthBytes /\ file[2] = 0 /\ HeaderIdAndMapPresent) =>
                /\ raw_result[1].ok
                /\ RawTgaHeader(raw_result[1].value).color_map_depth = None
                /\ ~RawTgaHeader(raw_result[1].value).has_color_map

\* RawTga::from_slice has succeeded on a header with colour-map depth 0 and
\* no colour map
C19_Witness ==
    /\ raw_result # None
    /\ raw_result[1].ok
    /\ file[2] = 0
    /\ file[8] = 0
    /\ RawTgaHeader(raw_result[1].value).color_map_depth = None

\* the origin bits 4 and 5 of a descriptor byte select
OriginOfBits(d) ==
    CASE (d \div 16) % 4 = 0 -> "BottomLeft"
      [] (d \div 16) % 4 = 1 -> "BottomRight"
      [] (d \div 16) % 4 = 2 -> "TopLeft"
      [] (d \div 16) % 4 = 3 -> "TopRight"

\* C20: whatever the image-descriptor byte d (header byte 18), a buffer with
\* header, image id and colour map in order parses; the origin of the image
\* and of header() is the one bits 4-5 of d select and the alpha-channel
\* depth of header() is bits 0-3 of d.
C20_ImageDescriptor ==
    (raw_result # None /\ HeaderIdAndMapPresent) =>
        /\ raw_result[1].ok
        /\ raw_result[1].value.image_origin = OriginOfBits(file[18])
        /\ RawTgaHeader(raw_result[1].value).image_origin = OriginOfBits(file[18])
        /\ RawTgaHeader(raw_result[1].value).alpha_channel_depth = file[18] % 16

\* a header whose descriptor byte has bits 6 and 7 set has been parsed: 0xDB
\* is bottom-right with alpha depth 11
C20_Witness ==
    /\ raw_result # None
    /\ raw_result[1].ok
    /\ file[18] = 219
    /\ raw_result[1].value.image_origin = "BottomRight"
    /\ RawTgaHeader(raw_result[1].value).alpha_channel_depth = 11

(***************************************************************************)
(* Claims about the end of the RLE stream (SpecPixels, SpecColors).        *)
(***************************************************************************)
\* the number of pixels a string of whole packets encodes (each packet a
\* control byte and its one colour, or its count of colours); -1 for a
\* string that ends inside a packet
RECURSIVE EncodedPixels(_, _)
EncodedPixels(data, N) ==
    IF data = <<>> THEN 0
    ELSE LET n == (data[1] % 128) + 1
             payload == IF data[1] >= 128 THEN N ELSE n * N
         IN  IF Len(data) < 1 + payload THEN -1
             ELSE LET more == EncodedPixels(Drop(data, 1 + payload), N)
                  IN  IF more < 0 THEN -1 ELSE n + more

\* the image is RLE compressed and its pixel data is whole packets that
\* encode fewer pixels than width * height
RleStreamShort ==
    /\ raw_tga.compression = "Rle"
    /\ EncodedPixels(raw_tga.pixel_data, bytes(raw_tga.bpp)) >= 0
    /\ EncodedPixels(raw_tga.pixel_data, bytes(raw_tga.bpp))
            < raw_tga.size.width * raw_tga.size.height

\* the RLE decoder of the iterator stands between two packets with no byte
\* left
RleExhaustedAtBoundary ==
    /\ raw_tga.compression = "Rle"
    /\ pixels.colors.inner.rle_repeat = 0
    /\ pixels.colors.inner.rle_take_raw = 0
    /\ pixels.colors.inner.remaining_data = <<>>

\* C21: a call of next() that finds the RLE decoder between two packets with
\* no byte left yields nothing; over an RLE image whose packets encode
\* m < width * height pixels each of the first m calls yields a pixel and call
\* m + 1 ends the iteration, so exactly m pixels are yielded.
C21_RleEndsAtPacketBoundary ==
    [][/\ RleExhaustedAtBoundary => (ended' /\ out' = out)
       /\ RleStreamShort =>
            LET m == EncodedPixels(raw_tga.pixel_data, bytes(raw_tga.bpp))
            IN  /\ Len(out) <= m
                /\ Len(out) < m => (Len(out') = Len(out) + 1 /\ ~ended')
                /\ Len(out) = m => (out' = out /\ ended')]_vars

\* the iterator over a 2 by 2 RLE image whose only packet repeats a colour
\* twice has yielded the two pixels and ended
C21_Witness ==
    /\ RleStreamShort
    /\ raw_tga.size = [width |-> 2, height |-> 2]
    /\ raw_tga.pixel_data # <<>>
    /\ raw_tga.pixel_data[1] = 129
    /\ Len(out) = 2
    /\ ended

\* C22: every call of next() on the uncompressed decoder returns a pixel:
\* with at least N bytes left, the value whose byte j is the j-th of them
\* (bytes above the N-th are 0) and the cursor moves on by exactly N; with
\* fewer left, the value 0 and the cursor stays, so every later call returns 0
\* as well.
C22_UncompressedNext ==
    [][(format = "Uncompressed" /\ calls < limit) =>
        LET N == raw_data_type
            rd == colors.remaining_data
        IN  /\ item' # None
            /\ Len(rd) >= N =>
                /\ \A j \in 1..4 : item'[1][j] = IF j <= N THEN rd[j] ELSE 0
                /\ colors'.remaining_data = SubSeq(rd, N + 1, Len(rd))
                /\ Len(colors'.remaining_data) = Len(rd) - N
            /\ Len(rd) < N =>
                /\ item' = Some(Zero32)
                /\ colors'.remaining_data = rd
            /\ (item = Some(Zero32) /\ calls >= 1 /\ Len(rd) < N) => item' = Some(Zero32)]_vars

\* the 3 byte decoder over five bytes has returned the stored colour, then 0
\* twice, with the two leftover bytes still under the cursor
C22_Witness ==
    /\ format = "Uncompressed"
    /\ raw_data_type = 3
    /\ Len(image_data) = 5
    /\ image_data[1] = 129
    /\ calls = 3
    /\ item = Some(Zero32)
    /\ Len(colors.remaining_data) = 2

(***************************************************************************)
(* Claims about draw and the colour map (Spec).                            *)
(***************************************************************************)
\* the first n values a decoder returns (fewer when it ends before)
RECURSIVE DecodedValues(_, _, _, _)
DecodedValues(c, N, F, n) ==
    IF n = 0 THEN <<>>
    ELSE LET r == ColorsNext(c, N, F)
         IN  IF r.item = None THEN <<>>
             ELSE <<r.item[1]>> \o DecodedValues(r.colors, N, F, n - 1)

\* the stored pixel values of the drawn image, in storage order: the values
\* draw's decoder returns for the width * height pixels
StoredValues ==
    DecodedValues(RawColorsNew(DrawnTga.raw.pixel_data), bytes(DrawnTga.raw.bpp),
                  DrawnTga.raw.compression, DrawnWidth * DrawnHeight)

\* a stored value of up to 24 bits as a number
IndexOf(v) == v[1] + 256 * v[2] + 65536 * v[3]

\* draw has run on an image with a colour map and reached the fills: the
\* size is not zero, the pixels are not 32 bit wide, the origin is on the left
DrawnThroughMap ==
    /\ draw_result # None
    /\ DrawnTga.raw.color_map # None
    /\ DrawnTga.raw.bpp # "Bits32"
    /\ DrawnTga.raw.image_origin \in {"TopLeft", "BottomLeft"}
    /\ DrawnWidth >= 1
    /\ DrawnHeight >= 1

\* C23: while an image with a colour map is drawn, every index looked up in
\* the map lies in [0, entry_count): the k-th stored value is looked up when
\* the lookups before it succeeded, and it is then below the entry count.
C23_LookupsInRange ==
    DrawnThroughMap =>
        \A k \in 1..Len(StoredValues) :
            (\A j \in 1..(k - 1) :
                IndexOf(StoredValues[j]) < DrawnTga.raw.color_map[1].length)
            => IndexOf(StoredValues[k]) < DrawnTga.raw.color_map[1].length

\* the colours of all fills of the draw, in the order they were written
WrittenColours ==
    Flatten([i \in DOMAIN draw_result[1].fills |-> draw_result[1].fills[i].colors])

\* draw has reached the fills of an image classified as 8 bit gray that has a
\* colour map
DrawnGray8ThroughMap ==
    /\ DrawnThroughMap
    /\ DrawnTga.image_color_type = "Gray8"

\* C24: for an image classified as 8 bit gray with a colour map,
\* draw completes and writes the stored pixel values themselves, none of them
\* looked up in the colour map.
C24_Gray8SkipsColorMap ==
    DrawnGray8ThroughMap =>
        /\ draw_result[1].status = "ok"
        /\ WrittenColours =
            [k \in 1..Len(StoredValues) |->
                [color_type |-> "Gray8", raw |-> <<StoredValues[k][1], 0, 0, 0>>]]

(***************************************************************************)
(* Claims about the positions of the raw pixel iterator (SpecPixels).      *)
(***************************************************************************)
\* the left-hand origin on the same edge
LeftOf(origin) ==
    CASE origin = "TopRight" -> "TopLeft"
      [] origin = "BottomRight" -> "BottomLeft"
      [] OTHER -> origin

\* the positions of the first n pixels the raw pixel iterator it over the
\* image t yields (fewer when it ends before)
RECURSIVE PositionsOf(_, _, _)
PositionsOf(t, it, n) ==
    IF n = 0 THEN <<>>
    ELSE LET r == RawPixelsNext(t, it)
         IN  IF r.item = None THEN <<>>
             ELSE <<r.item[1].position>> \o PositionsOf(t, r.pixels, n - 1)

\* the image with its origin moved to the left-hand corner of the same edge
LeftTwin == [raw_tga EXCEPT !.image_origin = LeftOf(raw_tga.image_origin)]

\* C25: the positions the raw pixel iterator yields for a top-right image are
\* those it yields for the top-left image of the same size and data, and for
\* a bottom-right image those of the bottom-left image; the k-th (from 0) has
\* x = k mod width, and y = k div width from the top or from the bottom edge:
\* no horizontal mirroring is done.
C25_VerticalOriginOnly ==
    LET w == raw_tga.size.width
        h == raw_tga.size.height
    IN  /\ [i \in 1..Len(out) |-> out[i].position]
                = PositionsOf(LeftTwin, RawPixelsNew(LeftTwin), Len(out))
        /\ w >= 1 =>
            \A i \in 1..Len(out) :
                /\ out[i].position.x = (i - 1) % w
                /\ raw_tga.image_origin \in {"TopLeft", "TopRight"} =>
                        out[i].position.y = (i - 1) \div w
                /\ raw_tga.image_origin \in {"BottomLeft", "BottomRight"} =>
                        out[i].position.y = h - 1 - ((i - 1) \div w)

\* every position of a bottom-right image of 2 by 2 pixels has been yielded:
\* the first is the left end of the bottom row, the last the right end of the
\* top row
C25_Witness ==
    /\ raw_tga.image_origin = "BottomRight"
    /\ raw_tga.size = [width |-> 2, height |-> 2]
    /\ Len(out) = 4
    /\ out[1].position = [x |-> 0, y |-> 1]
    /\ out[4].position = [x |-> 1, y |-> 0]

(***************************************************************************)
(* Claims about the RLE decoder's counters and cursor (SpecColors).        *)
(***************************************************************************)
\* the next call of next() on the RLE decoder reads a control byte: no count
\* is pending and a byte is left
ReadsControlByte ==
    /\ format = "Rle"
    /\ calls < limit
    /\ colors.rle_repeat = 0
    /\ colors.rle_take_raw = 0
    /\ colors.remaining_data # <<>>

\* C26: a call of next() on the RLE decoder reads at most one control byte;
\* the control byte b sets the pixel count (b mod 128) + 1, which lies in
\* 1..128, for a repeat packet when b >= 128 and a raw packet otherwise, and
\* the same call then returns the packet's first pixel and leaves count - 1
\* pending, or returns None because the pixel's bytes are missing.
C26_OneControlBytePerCall ==
    [][(format = "Rle" /\ calls < limit) =>
        /\ RleControlBytesRead(colors, raw_data_type) <= 1
        /\ RleControlBytesRead(colors, raw_data_type) = 1 <=> ReadsControlByte
        /\ ReadsControlByte =>
            LET b == colors.remaining_data[1]
                count == (b % 128) + 1
                N == raw_data_type
            IN  /\ PixelCount(b) = count
                /\ count \in 1..MaxPacketPixels
                /\ IsRepeatPacket(b) <=> b >= 128
                /\ IF Len(colors.remaining_data) >= 1 + N
                   THEN /\ item' = Some(ColorAt(colors.remaining_data, 2, N))
                        /\ colors'.remaining_data = Drop(colors.remaining_data, 1 + N)
                        /\ colors'.rle_repeat = IF b >= 128 THEN count - 1 ELSE 0
                        /\ colors'.rle_take_raw = IF b >= 128 THEN 0 ELSE count - 1
                   ELSE /\ item' = None
                        /\ colors'.remaining_data = Drop(colors.remaining_data, 1)]_vars

\* the decoder has read the control byte 127, a raw packet of 128 pixels, and
\* returned the first of them
C26_Witness ==
    /\ format = "Rle"
    /\ image_data # <<>>
    /\ image_data[1] = 127
    /\ calls = 1
    /\ item # None
    /\ colors.rle_take_raw = 127

(***************************************************************************)
(* The raw pixel iterator on images of any size and on cut-off RLE data    *)
(* (SpecPixels).                                                           *)
(***************************************************************************)
\* C27: every position the raw pixel iterator yields has 0 <= x < width and
\* 0 <= y < height, whatever the header's width and height, the origin and
\* the compression; for an image of width 0 or height 0 it yields nothing.
C27_PositionsInsideImage ==
    /\ \A i \in 1..Len(out) :
        /\ 0 <= out[i].position.x
        /\ out[i].position.x < raw_tga.size.width
        /\ 0 <= out[i].position.y
        /\ out[i].position.y < raw_tga.size.height
    /\ (raw_tga.size.width = 0 \/ raw_tga.size.height = 0) => out = <<>>

\* the next n calls of next() on the RLE decoder c all return None
RECURSIVE NoneFor(_, _, _)
NoneFor(c, N, n) ==
    IF n = 0 THEN TRUE
    ELSE LET r == ColorsNext(c, N, "Rle")
         IN  r.item = None /\ NoneFor(r.colors, N, n - 1)

\* C28: whenever a call of next() on the RLE decoder of the iterator returns
\* None, the calls after it return None too, whatever bytes of a cut-off
\* packet are left; and once the raw pixel iterator has returned None it
\* yields no further pixel.
C28_NoneIsSticky ==
    /\ [](raw_tga.compression = "Rle" =>
            LET N == bytes(raw_tga.bpp)
                r == ColorsNext(pixels.colors.inner, N, "Rle")
            IN  r.item = None => NoneFor(r.colors, N, MaxCalls))
    /\ [][ended => (ended' /\ out' = out)]_vars

\* the iterator over a 2 by 2 RLE image of 16 bit pixels whose raw packet of
\* two pixels has three bytes only has yielded one pixel and ended, and a
\* later call has used up the leftover byte as a control byte
C28_Witness ==
    /\ raw_tga.compression = "Rle"
    /\ raw_tga.bpp = "Bits16"
    /\ raw_tga.size = [width |-> 2, height |-> 2]
    /\ Len(raw_tga.pixel_data) = 4
    /\ raw_tga.pixel_data[1] = 1
    /\ ended
    /\ Len(out) = 1
    /\ pixels.colors.inner.remaining_data = <<>>

(***************************************************************************)
(* Images that carry a colour map without being colour-mapped (Spec).      *)
(***************************************************************************)
\* the colour type a pixel depth alone gives a true-colour image
ColorTypeOfDepth(b) ==
    CASE b = "Bits16" -> Some("Rgb555")
      [] b = "Bits24" -> Some("Rgb888")
      [] OTHER -> None

\* C29: a true-colour image (image type 2 or 10) whose header also carries a
\* colour map is classified by its pixel depth, and draw writes its stored
\* pixel values as colours of that type: the colour map is used only for
\* images of the data kind ColorMapped.
C29_MapOnlyForColorMapped ==
    /\ (tga_result # None /\ RawTgaFromSlice(file).ok
            /\ RawTgaFromSlice(file).value.data_type = "TrueColor"
            /\ RawTgaFromSlice(file).value.color_map # None) =>
        LET t == ColorTypeOfDepth(RawTgaFromSlice(file).value.bpp)
        IN  /\ tga_result[1].ok <=> t # None
            /\ tga_result[1].ok => tga_result[1].value.image_color_type = t[1]
    /\ (DrawnThroughMap /\ DrawnTga.raw.data_type # "ColorMapped") =>
        /\ draw_result[1].status = "ok"
        /\ WrittenColours =
            [k \in 1..Len(StoredValues) |->
                ColorFrom(CASE DrawnTga.raw.bpp = "Bits8" -> "Gray8"
                            [] DrawnTga.raw.bpp = "Bits16" -> "Rgb555"
                            [] OTHER -> "Rgb888", StoredValues[k])]

(***************************************************************************)
(* The RLE decoder's state (SpecColors).                                   *)
(***************************************************************************)
\* C30: in every state of the RLE decoder at most one of rle_repeat and
\* rle_take_raw is non-zero and neither exceeds 128; the cursor is a suffix of
\* the data, and a call of next() moves it on by 0 bytes when it replays the
\* cached repeat pixel, by N when it reads a literal pixel, by 1 for a control
\* byte plus N for the pixel read after it, and never when the pixel's bytes
\* are missing.
C30_RleDecoderState ==
    /\ [](format = "Rle" =>
            /\ ~(colors.rle_repeat > 0 /\ colors.rle_take_raw > 0)
            /\ colors.rle_repeat \in 0..MaxPacketPixels
            /\ colors.rle_take_raw \in 0..MaxPacketPixels
            /\ Len(colors.remaining_data) <= Len(image_data)
            /\ colors.remaining_data
                = Drop(image_data, Len(image_data) - Len(colors.remaining_data)))
    /\ [][(format = "Rle" /\ calls < limit) =>
            LET N == raw_data_type
                before == Len(colors.remaining_data)
                moved == before - Len(colors'.remaining_data)
            IN  /\ colors.rle_repeat > 0 =>
                    /\ moved = 0
                    /\ item' = Some(colors.rle_pixel)
                    /\ colors'.rle_repeat = colors.rle_repeat - 1
                /\ (colors.rle_repeat = 0 /\ colors.rle_take_raw > 0) =>
                    /\ moved = IF before >= N THEN N ELSE 0
                    /\ colors'.rle_take_raw = colors.rle_take_raw - 1
                /\ (colors.rle_repeat = 0 /\ colors.rle_take_raw = 0) =>
                    moved = CASE before = 0 -> 0
                              [] before >= 1 + N -> 1 + N
                              [] OTHER -> 1]_vars

\* the decoder has replayed the cached pixel of a repeat packet of 128
\* pixels: 126 replays are pending and the cursor stands where the first call
\* left it
C30_Witness ==
    /\ format = "Rle"
    /\ image_data # <<>>
    /\ image_data[1] = 255
    /\ calls = 2
    /\ colors.rle_repeat = 126
    /\ colors.rle_take_raw = 0
    /\ colors.remaining_data = Drop(image_data, 1 + raw_data_type)

====
